---- MODULE Spec2Model ----
(***************************************************************************)
(* McycleDelay (src/src/delay.rs): a busy-wait delay provider driven by    *)
(* the RISC-V machine cycle counter `mcycle`.                              *)
(*                                                                         *)
(* Every Rust integer is modelled at its real width.  A value of an n-byte *)
(* integer type is the sequence of its n bytes, least significant first    *)
(* (its two's-complement bit pattern), so that u64 arithmetic, which does  *)
(* not fit the model checker's own integers, is computed byte by byte      *)
(* exactly as the machine computes it: the casts extend the pattern, `*`   *)
(* yields the full product of which the low 8 bytes are kept, `/` is long  *)
(* division, wrapping_sub is subtraction modulo 2^64.                      *)
(***************************************************************************)
EXTENDS Integers, Sequences, FiniteSets

VARIABLES
    core_frequency,     \* McycleDelay.core_frequency: u32 (4 bytes)
    overflow_checks,    \* the build: TRUE when `*` panics on overflow (debug)
    frozen,             \* the hardware: TRUE when mcycle does not count
    mcycle,             \* the mcycle register: u64 (8 bytes)
    pc,                 \* where the hart is: idle, sample, loop, returned, panicked
    call,               \* the call in progress or last made
    cycle_count,        \* delay_cycles' argument: u64
    start_cycle_count,  \* delay_cycles' local: u64
    since,              \* the value cycles_since returned at the last comparison
    compared,           \* a comparison of the loop condition was made in this call
    samples,            \* how often this call sampled start_cycle_count
    elapsed,            \* cycles truly elapsed since the start sample (saturates at 2^64)
    fine                \* single-cycle advances observed so far

vars == <<core_frequency, overflow_checks, frozen, mcycle, pc, call, cycle_count,
          start_cycle_count, since, compared, samples, elapsed, fine>>

(***************************************************************************)
(* Bounds of the model.                                                    *)
(***************************************************************************)
\* How many single-cycle advances of the counter a behaviour observes; the
\* coarse advance (CoarseStep) is always available.
MaxFineSteps == 3

(***************************************************************************)
(* Integer types.                                                          *)
(***************************************************************************)
U64Bytes == 8
U32Bytes == 4

\* The eight input types DelayUs / DelayMs are implemented for.
InputTypes == {"i8", "i16", "i32", "i64", "u8", "u16", "u32", "u64"}

Bytes(T) ==
    CASE T \in {"i8", "u8"} -> 1
      [] T \in {"i16", "u16"} -> 2
      [] T \in {"i32", "u32"} -> 4
      [] T \in {"i64", "u64"} -> 8

Signed(T) == T \in {"i8", "i16", "i32", "i64"}

\* The 1_000_000 of try_delay_us and the 1000 of try_delay_ms.
US_DIVISOR == 1000000
MS_DIVISOR == 1000

(***************************************************************************)
(* Byte-sequence arithmetic.                                               *)
(***************************************************************************)
\* The n-byte pattern of a small natural number v (v < 2^31).
Nat2Bytes(v, n) ==
    [i \in 1..n |-> IF i > 4 THEN 0 ELSE (v \div (256 ^ (i - 1))) % 256]

\* Zero extension (or truncation) to n bytes: an unsigned `as`.
ZeroExtend(a, n) == [i \in 1..n |-> IF i <= Len(a) THEN a[i] ELSE 0]

\* Sign extension to n bytes: a signed `as` to a wider type.
SignExtend(a, n) ==
    [i \in 1..n |-> IF i <= Len(a) THEN a[i]
                    ELSE IF a[Len(a)] >= 128 THEN 255 ELSE 0]

RECURSIVE Propagate(_, _, _, _)
\* Carry propagation: the bytes of the number whose i-th column sum is cols[i],
\* modulo 256^Len(cols).
Propagate(cols, i, carry, acc) ==
    IF i > Len(cols) THEN acc
    ELSE Propagate(cols, i + 1, (cols[i] + carry) \div 256,
                   Append(acc, (cols[i] + carry) % 256))

RECURSIVE ColSum(_, _, _, _)
\* The k-th column of the schoolbook product: the sum of a[i] * b[j], i + j - 1 = k.
ColSum(a, b, k, i) ==
    IF i = 0 THEN 0
    ELSE (IF k + 1 - i >= 1 /\ k + 1 - i <= Len(b) THEN a[i] * b[k + 1 - i] ELSE 0)
         + ColSum(a, b, k, i - 1)

\* The exact product of a and b, Len(a) + Len(b) bytes.
MulFull(a, b) ==
    Propagate([k \in 1..(Len(a) + Len(b)) |-> ColSum(a, b, k, Len(a))], 1, 0, <<>>)

\* Byte k of a, 0 beyond its length.
At(a, k) == IF k <= Len(a) THEN a[k] ELSE 0

\* The carry into byte k of a + b + cin: some lower byte generates a carry
\* (or cin does) and every byte between passes it on.
CarryInto(a, b, k, cin) ==
    IF \/ \E j \in 1..(k - 1) :
            /\ At(a, j) + At(b, j) >= 256
            /\ \A m \in (j + 1)..(k - 1) : At(a, m) + At(b, m) = 255
       \/ /\ cin = 1
          /\ \A m \in 1..(k - 1) : At(a, m) + At(b, m) = 255
    THEN 1 ELSE 0

\* a + b + cin modulo 256^n.
AddCarry(a, b, n, cin) ==
    [k \in 1..n |-> (At(a, k) + At(b, k) + CarryInto(a, b, k, cin)) % 256]

\* a + b modulo 256^n.
AddMod(a, b, n) == AddCarry(a, b, n, 0)

\* The one's complement of a.
Complement(a) == [k \in 1..Len(a) |-> 255 - a[k]]

RECURSIVE CmpAt(_, _, _)
\* -1, 0, 1 as a < b, a = b, a > b, comparing bytes i, i-1, .. 1.
CmpAt(a, b, i) ==
    IF i = 0 THEN 0
    ELSE IF a[i] < b[i] THEN -1
    ELSE IF a[i] > b[i] THEN 1
    ELSE CmpAt(a, b, i - 1)

Widest(a, b) == IF Len(a) >= Len(b) THEN Len(a) ELSE Len(b)

\* Unsigned comparison of two byte sequences of any lengths.
Cmp(a, b) == CmpAt(ZeroExtend(a, Widest(a, b)), ZeroExtend(b, Widest(a, b)), Widest(a, b))

Leq(a, b) == Cmp(a, b) <= 0
Lt(a, b) == Cmp(a, b) < 0

IsZero(a) == \A i \in 1..Len(a) : a[i] = 0

RECURSIVE DivStep(_, _, _, _, _)
\* Long division of a by the small number m, from the top byte down.
DivStep(a, m, i, rem, acc) ==
    IF i = 0 THEN acc
    ELSE DivStep(a, m, i - 1, (rem * 256 + a[i]) % m,
                 <<(rem * 256 + a[i]) \div m>> \o acc)

\* Mutant of DivU64: the quotient rounded up, (a + m - 1) / m.
DivU64RoundUp(a, m) ==
    SubSeq(DivStep(AddMod(a, Nat2Bytes(m - 1, 4), Len(a) + 1), m, Len(a) + 1, 0, <<>>),
           1, Len(a))

\* a / m for a u64 a and a small constant m: truncating division.
DivU64(a, m) == DivStep(a, m, Len(a), 0, <<>>)

\* a - b modulo 2^64 (u64::wrapping_sub): a + (2^64 - 1 - b) + 1.
wrapping_sub(a, b) == AddCarry(a, Complement(b), U64Bytes, 1)

Zero64 == Nat2Bytes(0, U64Bytes)
One64 == Nat2Bytes(1, U64Bytes)
\* u64::MAX = 2^64 - 1
MaxU64 == [i \in 1..U64Bytes |-> 255]
\* 2^64, the first number a u64 cannot hold (9 bytes).
TwoTo64 == [i \in 1..(U64Bytes + 1) |-> IF i = U64Bytes + 1 THEN 1 ELSE 0]

(***************************************************************************)
(* The conversion of a duration to a cycle count (try_delay_us / _ms).     *)
(***************************************************************************)
\* Mutant of as_u64: every type cast through i64, so sign-extended.
as_u64_sign_extending(T, d) == SignExtend(d, U64Bytes)

\* `us as u64`: sign extension from a signed type, zero extension from an
\* unsigned one (no cast at all from u64).
as_u64(T, d) ==
    IF Signed(T) THEN SignExtend(d, U64Bytes) ELSE ZeroExtend(d, U64Bytes)

\* Mutant of Product: a zero frequency replaced by 1 (`core_frequency.max(1)`).
ProductNonZeroFrequency(T, d, f) ==
    MulFull(as_u64(T, d), IF IsZero(f) THEN One64 ELSE ZeroExtend(f, U64Bytes))

\* The exact value of `(us as u64) * (self.core_frequency as u64)`, 16 bytes.
Product(T, d, f) == MulFull(as_u64(T, d), ZeroExtend(f, U64Bytes))

\* The u64 multiplication overflows: the product does not fit 8 bytes.
MulOverflows(p) == \E i \in (U64Bytes + 1)..Len(p) : p[i] # 0

\* What a u64 multiplication without overflow checks yields: the low 8 bytes.
wrapping_mul(p) == SubSeq(p, 1, U64Bytes)

\* Mutant of Divisor: the two divisors exchanged.
DivisorExchanged(unit) == IF unit = "us" THEN MS_DIVISOR ELSE US_DIVISOR

Divisor(unit) == IF unit = "us" THEN US_DIVISOR ELSE MS_DIVISOR

\* The argument try_delay_us / try_delay_ms pass to delay_cycles when the
\* multiplication does not panic.
Cycles(unit, T, d, f) == DivU64(wrapping_mul(Product(T, d, f)), Divisor(unit))

\* The multiplication panics: it overflows in a build with overflow checks.
Panics(T, d, f) == overflow_checks /\ MulOverflows(Product(T, d, f))

(***************************************************************************)
(* The busy-wait loop (cycles_since, delay_cycles).                        *)
(***************************************************************************)
\* Mutant of cycles_since: saturating_sub for wrapping_sub.
cycles_since_saturating(counter, previous_cycle_count) ==
    IF Leq(previous_cycle_count, counter)
    THEN wrapping_sub(counter, previous_cycle_count)
    ELSE Zero64

\* cycles_since(previous_cycle_count), reading `counter` from mcycle.
cycles_since(counter, previous_cycle_count) ==
    wrapping_sub(counter, previous_cycle_count)

\* Mutant of LoopCond: `<` for `<=`.
LoopCondStrict(s, target) == Lt(s, target)

\* Mutant of LoopCond: the comparison reversed, `>=` for `<=`.
LoopCondReversed(s, target) == Leq(target, s)

\* The condition of delay_cycles' while loop: TRUE keeps waiting.
LoopCond(s, target) == Leq(s, target)

(***************************************************************************)
(* Inputs.                                                                 *)
(***************************************************************************)
\* Two's-complement negation of an n-byte pattern: the pattern of -v.
Negate(a) == AddCarry(Complement(a), <<>>, Len(a), 1)

\* The largest value of type T.
MaxValue(T) ==
    [i \in 1..Bytes(T) |-> IF i = Bytes(T) /\ Signed(T) THEN 127 ELSE 255]

\* The smallest value of a signed type T.
MinValue(T) == [i \in 1..Bytes(T) |-> IF i = Bytes(T) THEN 128 ELSE 0]

\* v * 256^(n-1): a value whose top byte is v.
HighByte(v, n) == [i \in 1..n |-> IF i = n THEN v ELSE 0]

\* A negative value of a signed type: its top bit is set.
IsNegative(T, d) == Signed(T) /\ d[Len(d)] >= 128

SmallDurations == {0, 2}
NegativeMagnitudes == {10}

\* The durations of type T the model calls with.
Durations(T) ==
    {Nat2Bytes(v, Bytes(T)) : v \in SmallDurations}
    \cup (IF Bytes(T) >= 2 THEN {Nat2Bytes(500, Bytes(T))} ELSE {})
    \cup {HighByte(64, Bytes(T))}
    \cup {MaxValue(T)}
    \cup (IF Signed(T)
          THEN {Negate(Nat2Bytes(v, Bytes(T))) : v \in NegativeMagnitudes}
               \cup {MinValue(T)}
          ELSE {})

\* The clock frequencies the provider is constructed with.
Frequencies ==
    {Nat2Bytes(v, U32Bytes) : v \in {0, 1, 1000000, 8000000}}
    \cup {[i \in 1..U32Bytes |-> 255]}

\* The advance of the counter between two reads when the hart is preempted
\* for long: 2^62 cycles.
CoarseStep == HighByte(64, U64Bytes)

\* The cycle counts delay_cycles is called with directly.
DirectTargets ==
    {Zero64, One64, Nat2Bytes(2, U64Bytes), CoarseStep,
     wrapping_sub(MaxU64, CoarseStep), wrapping_sub(MaxU64, One64), MaxU64}

\* The values of mcycle when the model starts.
InitialCounters == {Zero64, wrapping_sub(MaxU64, One64)}

NoCall == [unit |-> "none", ty |-> "u64", d |-> Zero64]

(***************************************************************************)
(* The state machine.                                                      *)
(***************************************************************************)
Init ==
    /\ core_frequency \in Frequencies
    /\ overflow_checks \in BOOLEAN
    /\ frozen \in BOOLEAN
    /\ mcycle \in InitialCounters
    /\ pc = "idle"
    /\ call = NoCall
    /\ cycle_count = Zero64
    /\ start_cycle_count = Zero64
    /\ since = Zero64
    /\ compared = FALSE
    /\ samples = 0
    /\ elapsed = ZeroExtend(Zero64, U64Bytes + 1)
    /\ fine = 0

\* The hart is free to make a call: a behaviour follows one call to its end.
CanCall == pc = "idle"

\* McycleDelay::new(freq): any u32 is accepted.
new(freq) ==
    /\ CanCall
    /\ core_frequency' = freq
    /\ UNCHANGED <<overflow_checks, frozen, mcycle, pc, call, cycle_count,
                   start_cycle_count, since, compared, samples, elapsed, fine>>

\* Entry of delay_cycles(target), before its first statement.
EnterDelayCycles(target) ==
    /\ cycle_count' = target
    /\ pc' = "sample"
    /\ compared' = FALSE
    /\ samples' = 0
    /\ since' = Zero64
    /\ elapsed' = ZeroExtend(Zero64, U64Bytes + 1)
    /\ UNCHANGED <<core_frequency, overflow_checks, frozen, mcycle,
                   start_cycle_count, fine>>

\* The multiplication overflowed in a build with overflow checks: the call
\* panics and never reaches delay_cycles.
Panic ==
    /\ pc' = "panicked"
    /\ UNCHANGED <<core_frequency, overflow_checks, frozen, mcycle, cycle_count,
                   start_cycle_count, since, compared, samples, elapsed, fine>>

\* DelayUs<T>::try_delay_us(us), up to its call of delay_cycles.
try_delay_us(T, us) ==
    /\ CanCall
    /\ call' = [unit |-> "us", ty |-> T, d |-> us]
    /\ IF Panics(T, us, core_frequency) THEN Panic
       ELSE EnterDelayCycles(Cycles("us", T, us, core_frequency))

\* DelayMs<T>::try_delay_ms(ms), up to its call of delay_cycles.
try_delay_ms(T, ms) ==
    /\ CanCall
    /\ call' = [unit |-> "ms", ty |-> T, d |-> ms]
    /\ IF Panics(T, ms, core_frequency) THEN Panic
       ELSE EnterDelayCycles(Cycles("ms", T, ms, core_frequency))

\* McycleDelay::delay_cycles(cycle_count), called directly.
delay_cycles(target) ==
    /\ CanCall
    /\ call' = [unit |-> "cycles", ty |-> "u64", d |-> target]
    /\ EnterDelayCycles(target)

\* let start_cycle_count = McycleDelay::get_cycle_count();
Sample ==
    /\ pc = "sample"
    /\ start_cycle_count' = mcycle
    /\ samples' = samples + 1
    /\ pc' = "loop"
    /\ UNCHANGED <<core_frequency, overflow_checks, frozen, mcycle, call,
                   cycle_count, since, compared, elapsed, fine>>

\* What the counter may have advanced by since it was last read.
Steps ==
    IF frozen THEN {Zero64}
    ELSE {CoarseStep} \cup (IF fine < MaxFineSteps THEN {One64} ELSE {})

\* The true number of elapsed cycles after `step` more, saturating at 2^64:
\* e <= 2^64 and step < 2^64, so the sum fits 9 bytes and its top byte tells.
Elapse(e, step) ==
    IF AddCarry(e, step, U64Bytes + 1, 0)[U64Bytes + 1] >= 1 THEN TwoTo64
    ELSE AddCarry(e, step, U64Bytes + 1, 0)

\* One evaluation of `while McycleDelay::cycles_since(start_cycle_count) <=
\* cycle_count {}`: the counter has advanced, it is read and compared.
Poll(step) ==
    /\ pc = "loop"
    /\ mcycle' = AddMod(mcycle, step, U64Bytes)
    /\ fine' = IF step = One64 THEN fine + 1 ELSE fine
    /\ elapsed' = Elapse(elapsed, step)
    /\ since' = cycles_since(mcycle', start_cycle_count)
    /\ compared' = TRUE
    /\ pc' = IF LoopCond(since', cycle_count) THEN "loop" ELSE "returned"
    /\ UNCHANGED <<core_frequency, overflow_checks, frozen, call, cycle_count,
                   start_cycle_count, samples>>

Next ==
    \/ \E freq \in Frequencies : new(freq)
    \/ \E T \in InputTypes : \E us \in Durations(T) : try_delay_us(T, us)
    \/ \E T \in InputTypes : \E ms \in Durations(T) : try_delay_ms(T, ms)
    \/ \E target \in DirectTargets : delay_cycles(target)
    \/ Sample
    \/ \E step \in Steps : Poll(step)

Spec == Init /\ [][Next]_vars

\* The hart keeps executing: a sample or a loop iteration that can run, runs.
FairSpec == Spec /\ WF_vars(Sample) /\ WF_vars(\E step \in Steps : Poll(step))

(***************************************************************************)
(* Notions the properties share.                                           *)
(***************************************************************************)
\* try_delay_us / try_delay_ms has passed cycle_count to delay_cycles.
Passed == call.unit \in {"us", "ms"} /\ pc \in {"sample", "loop", "returned"}

\* The mathematical product d * f of a non-negative duration and the frequency.
ExactProduct(d, f) == MulFull(ZeroExtend(d, U64Bytes), ZeroExtend(f, U64Bytes))

\* q = floor(p / m): q * m <= p < q * m + m.
IsFloor(q, p, m) ==
    /\ Leq(MulFull(q, Nat2Bytes(m, 4)), p)
    /\ Lt(p, AddMod(MulFull(q, Nat2Bytes(m, 4)), Nat2Bytes(m, 4), Len(q) + 5))

\* d1 <= d2 as values of type T.
ValueLeq(T, d1, d2) ==
    IF IsNegative(T, d1) # IsNegative(T, d2) THEN IsNegative(T, d1)
    ELSE Leq(d1, d2)

(***************************************************************************)
(* C1                                                                      *)
(***************************************************************************)
\* C1: for a negative duration of a signed type, try_delay_us / try_delay_ms
\* pass the cycle count 0 to delay_cycles, as for the duration 0 (the call
\* does not panic and the count is not a large unsigned value).
C1_NegativeGivesZero ==
    (call.unit \in {"us", "ms"} /\ IsNegative(call.ty, call.d))
        => (pc # "panicked" /\ IsZero(cycle_count))

C8_ZeroFrequencyGivesZero ==
    (call.unit \in {"us", "ms"} /\ IsZero(core_frequency))
        => (Passed /\ IsZero(cycle_count))

\* C8's case: a negative duration was converted under core_frequency = 0.
C8_Witness ==
    /\ IsZero(core_frequency)
    /\ Passed
    /\ IsNegative(call.ty, call.d)
    /\ IsZero(cycle_count)

(***************************************************************************)
(* C3                                                                      *)
(***************************************************************************)
\* C3: delay_cycles samples start exactly once and has returned only in a
\* state where cycles_since(start) > target at the sample that ended the loop;
\* so more than the computed cycle count has truly elapsed when a call returns.
C3_ReturnsOnlyAfterTarget ==
    /\ pc \in {"loop", "returned"} => samples = 1
    /\ pc = "returned"
        => /\ compared
           /\ Lt(cycle_count, since)
           /\ Lt(cycle_count, elapsed)

\* C3's case: a try_delay call with a non-zero cycle count has returned.
C3_Witness ==
    /\ pc = "returned"
    /\ call.unit \in {"us", "ms"}
    /\ ~IsZero(cycle_count)

(***************************************************************************)
(* C5                                                                      *)
(***************************************************************************)
\* C5: cycles_since(previous) is (counter - previous) modulo 2^64: while fewer
\* than 2^64 cycles have elapsed since previous was sampled, it is the true
\* number of elapsed cycles, also when the counter wrapped past zero.
C5_CyclesSinceIsElapsed ==
    (compared /\ Lt(elapsed, TwoTo64))
        => since = SubSeq(elapsed, 1, U64Bytes)

\* C5's case: start was sampled at 2^64 - 2, the counter wrapped to a value
\* below it, and cycles_since returned 2.
C5_Witness ==
    /\ compared
    /\ start_cycle_count = wrapping_sub(MaxU64, One64)
    /\ mcycle = Zero64
    /\ since = Nat2Bytes(2, U64Bytes)

(***************************************************************************)
(* C9                                                                      *)
(***************************************************************************)
\* C9 as stated: delay_cycles(0) has returned once a comparison was made, also
\* when the counter read equals the start sample.
C9_ZeroTargetExitsAtFirstComparison ==
    (IsZero(cycle_count) /\ compared) => pc = "returned"

\* C9 amended: delay_cycles(0) makes at least one comparison and returns at
\* the first one at which the counter differs from the start sample
\* (cycles_since >= 1); while the counter read equals the start sample it waits.
C9_ZeroTargetExitsAtFirstAdvance ==
    IsZero(cycle_count)
        => /\ pc = "returned" => (compared /\ ~IsZero(since))
           /\ (pc = "loop" /\ compared) => IsZero(since)

\* C9's case: delay_cycles(0) returned at a comparison one cycle after start.
C9_Witness ==
    /\ IsZero(cycle_count)
    /\ pc = "returned"
    /\ since = One64

(***************************************************************************)
(* C10                                                                     *)
(***************************************************************************)
\* C10: with a frozen counter delay_cycles never leaves its wait, for any
\* target, 0 included: no step takes it from sampling or looping to a return
\* or to any other outcome.
C10_FrozenNeverReturns ==
    [][(frozen /\ pc \in {"sample", "loop"}) => pc' \in {"sample", "loop"}]_vars

\* C10's case: the counter is frozen and delay_cycles(0) has compared and waits.
C10_Witness ==
    /\ frozen
    /\ pc = "loop"
    /\ compared
    /\ IsZero(cycle_count)

C7_Monotone ==
    (Passed /\ pc = "sample")
        => \A d1 \in Durations(call.ty) :
              ValueLeq(call.ty, d1, call.d)
                  => Leq(Cycles(call.unit, call.ty, d1, core_frequency), cycle_count)

(***************************************************************************)
(* C4                                                                      *)
(***************************************************************************)
\* The largest target the loop cannot step over: u64::MAX less the largest
\* advance of the counter between two reads.
LargestSafeTarget == wrapping_sub(MaxU64, CoarseStep)

====
